---- MODULE Spec2Model ----
(***************************************************************************)
(* Recommendation orchestration layer of the video platform backend:      *)
(* controllers/recommendation.controller.js on top of the HTTP client in   *)
(* utils/recommendationService.js, interleaved with the catalog writes of  *)
(* controllers/video.controller.js.                                        *)
(***************************************************************************)
EXTENDS Integers, Sequences, FiniteSets, TLC

VARIABLES videos, watchHistory, likes, req, writes, history, client, auth

vars == <<videos, watchHistory, likes, req, writes, history, client, auth>>

----------------------------------------------------------------------------
(* Bounds of the model *)

\* longest ranked list the external service returns
MaxRanked == 2
\* largest explicit ?limit= of a request
MaxLimit == 2
\* catalog writes interleaved in one behaviour
MaxWrites == 1

\* const { limit = 20 } = req.query
DefaultLimit == 20
\* const { limit = 10 } = req.query
DefaultSimilarLimit == 10

Videos == {"V1", "V2", "V3", "V4"}
Users == {"U1", "U2", "U3"}
Reqs == {"r1"}

\* a string that is no ObjectId, and an ObjectId no document ever had
BadId == "not-an-id"
UnknownId == "V9"

\* variant: the handler without its format test
isValidObjectIdAny(id) == TRUE

\* isValidObjectId(videoId)
isValidObjectId(id) == id # BadId

\* timestamps of the video documents; V4 is the newest upload
CreatedAt(v) == CASE v = "V1" -> 1 [] v = "V2" -> 2 [] v = "V3" -> 3 [] OTHER -> 4

\* the channel that uploaded the video
Owner(v) == IF v = "V4" THEN "U2" ELSE "U1"

\* the score the external service gives a video, and its breakdown
ServiceScore(v) == CreatedAt(v)
ServiceBreakdown(v) == [semantic |-> ServiceScore(v), popularity |-> 5 - ServiceScore(v)]

----------------------------------------------------------------------------
(* Sequences *)

Min(a, b) == IF a < b THEN a ELSE b

Range(s) == {s[i] : i \in 1..Len(s)}

BSeq(S, n) == UNION {[1..k -> S] : k \in 0..n}

\* list.map(x => x.video_id)
VideoIds(list) == [i \in 1..Len(list) |-> list[i].video_id]

\* variant: the pipeline without its $limit stage
TakeAll(s, n) == s

\* aggregation stage { $limit: n }
Take(s, n) == SubSeq(s, 1, Min(n, Len(s)))

RECURSIVE Dedupe(_)
\* [...new Set(s)]: first occurrences, in insertion order
Dedupe(s) ==
    IF s = <<>> THEN <<>>
    ELSE LET init == Dedupe(SubSeq(s, 1, Len(s) - 1))
             last == s[Len(s)]
         IN  IF last \in Range(init) THEN init ELSE Append(init, last)

----------------------------------------------------------------------------
(* The catalog store (Video, User and Like collections) *)

\* a removed document
Gone == [exists |-> FALSE, isPublished |-> FALSE, views |-> 0]

\* the document of video v as a query returns it
Doc(cat, v) ==
    [_id |-> v, owner |-> Owner(v), isPublished |-> cat[v].isPublished,
     views |-> cat[v].views]

\* what Video.findById gives for an id without a document
NoDoc == [_id |-> "none", owner |-> "none", isPublished |-> FALSE, views |-> 0]

\* variant: { $sort: { views: -1, createdAt: 1 } }
BeforeOldestFirst(cat, a, b) ==
    \/ cat[a].views > cat[b].views
    \/ cat[a].views = cat[b].views /\ CreatedAt(a) < CreatedAt(b)

\* { $sort: { views: -1, createdAt: -1 } }: a comes before b
Before(cat, a, b) ==
    \/ cat[a].views > cat[b].views
    \/ cat[a].views = cat[b].views /\ CreatedAt(a) > CreatedAt(b)

Perms(S) == {s \in [1..Cardinality(S) -> S] : Range(s) = S}

\* the ids of S in the order of the $sort stage
SortPopular(cat, S) ==
    CHOOSE s \in Perms(S) :
        \A i, j \in 1..Len(s) : i < j => Before(cat, s[i], s[j])

\* variant: { $match: { isPublished: true } } without the $nin
MatchPublishedNoExclusion(cat, exclude) ==
    {v \in Videos : cat[v].exists /\ cat[v].isPublished}

\* { $match: { isPublished: true, _id: { $nin: exclude } } }
MatchPublished(cat, exclude) ==
    {v \in Videos : cat[v].exists /\ cat[v].isPublished /\ v \notin Range(exclude)}

\* Video.aggregate([$match, $sort, $limit, ...]) of the popularity fallbacks
PopularAggregate(cat, exclude, limit) ==
    LET ids == Take(SortPopular(cat, MatchPublished(cat, exclude)), limit)
    IN  [i \in 1..Len(ids) |-> Doc(cat, ids[i])]

\* Video.find({ isPublished: true }).select("views createdAt") as videoMetadata
VideoMetadata(cat) ==
    [v \in MatchPublished(cat, <<>>) |-> cat[v].views]

\* variant: the documents come from a copy that still holds the deleted videos
FindByIdsStale(cat, ids) ==
    [v \in {w \in Videos : w \in Range(ids)} |-> Doc(cat, v)]

\* { $match: { _id: { $in: ids } } }: the documents found, keyed by id (videoMap)
FindByIds(cat, ids) ==
    [v \in {w \in Videos : cat[w].exists /\ w \in Range(ids)} |-> Doc(cat, v)]

\* variant: { $match } without the owner field
MatchAnyOwner(cat, videoId, owner) ==
    {v \in Videos : cat[v].exists /\ cat[v].isPublished /\ v # videoId}

\* { $match: { isPublished: true, _id: { $ne: videoId }, owner: video.owner } }
MatchSameOwner(cat, videoId, owner) ==
    {v \in Videos : cat[v].exists /\ cat[v].isPublished /\ v # videoId /\ Owner(v) = owner}

\* { $sort: { views: -1 } }: every order the stage may produce (ties are unordered)
SortByViews(cat, S) ==
    {s \in Perms(S) : \A i, j \in 1..Len(s) : i < j => cat[s[i]].views >= cat[s[j]].views}

\* the text fields of the video documents
Title(v) == <<"title", v>>
Description(v) == <<"description", v>>

\* Video.find({ isPublished: true }).select("title description"): the documents in
\* the natural order of the collection, the order of insertion
FindPublished(cat) ==
    LET S == MatchPublished(cat, <<>>)
        ids == CHOOSE s \in Perms(S) :
                   \A i, j \in 1..Len(s) : i < j => CreatedAt(s[i]) < CreatedAt(s[j])
    IN  [i \in 1..Len(ids) |->
            [_id |-> ids[i], title |-> Title(ids[i]), description |-> Description(ids[i])]]

\* variant: the videos of the batch before are left out
VideosForSyncNew(found) ==
    LET before == IF history.syncs = <<>> THEN {}
                  ELSE {e.video_id : e \in Range(history.syncs[Len(history.syncs)].batch)}
        fresh == SelectSeq(found, LAMBDA d : d._id \notin before)
    IN  [i \in 1..Len(fresh) |->
            [video_id |-> fresh[i]._id, title |-> fresh[i].title,
             description |-> fresh[i].description]]

\* videos.map(v => ({ video_id: v._id.toString(), title, description }))
VideosForSync(found) ==
    [i \in 1..Len(found) |->
        [video_id |-> found[i]._id, title |-> found[i].title,
         description |-> found[i].description]]

\* variant: the handler without its empty test
NothingToSyncNever(found) == FALSE

\* videos.length === 0
NothingToSync(found) == Len(found) = 0

----------------------------------------------------------------------------
(* The external service and its client *)

\* the entries of a ranked list of POST /recommendations/personalized
RankedEntries ==
    {[video_id |-> v, final_score |-> ServiceScore(v),
      score_breakdown |-> ServiceBreakdown(v)] : v \in Videos}

\* the entries of GET /recommendations/similar/:videoId
SimilarEntries ==
    {[video_id |-> v, similarity_score |-> ServiceScore(v)] : v \in Videos}

\* response.data of an empty body
NullData == [body |-> "null", list |-> "absent", recommendations |-> <<>>]
NullSimilar == [body |-> "null", list |-> "absent", similar_videos |-> <<>>]

\* the bodies a 2xx answer can carry: none, an object without the list, the list
PersonalizedData ==
    {NullData, [body |-> "object", list |-> "absent", recommendations |-> <<>>]}
    \cup {[body |-> "object", list |-> "array", recommendations |-> l] :
            l \in BSeq(RankedEntries, MaxRanked)}

SimilarData ==
    {NullSimilar, [body |-> "object", list |-> "absent", similar_videos |-> <<>>]}
    \cup {[body |-> "object", list |-> "array", similar_videos |-> l] :
            l \in BSeq(SimilarEntries, MaxRanked)}

\* how axios rejects a call: no connection, the timeout of the client, a non-2xx status
FailureKinds == {"error", "timeout", "status"}

\* what the transport does with one call: axios rejects, or resolves with a body
PersonalizedOutcomes ==
    {[kind |-> k, data |-> NullData] : k \in FailureKinds}
    \cup {[kind |-> "ok", data |-> d] : d \in PersonalizedData}

SimilarOutcomes ==
    {[kind |-> k, data |-> NullSimilar] : k \in FailureKinds}
    \cup {[kind |-> "ok", data |-> d] : d \in SimilarData}

\* try { return response.data } catch (error) { return null }
getPersonalizedRecommendations(outcome) ==
    IF outcome.kind = "ok" THEN outcome.data ELSE NullData

\* try { return response.data } catch (error) { return null }
getSimilarVideos(outcome) ==
    IF outcome.kind = "ok" THEN outcome.data ELSE NullSimilar

\* variant: only a null answer counts, if (!recommendations)
NoRecommendationsNullOnly(recommendations) ==
    recommendations.body = "null"

\* !recommendations || !recommendations.recommendations
NoRecommendations(recommendations) ==
    recommendations.body = "null" \/ recommendations.list = "absent"

\* !similarResult || !similarResult.similar_videos
NoSimilar(similarResult) ==
    similarResult.body = "null" \/ similarResult.list = "absent"

\* variant: after a failed call the handler awaits the service once more
ReplyBranchAwaitAgain(recommendations) ==
    IF NoRecommendations(recommendations) THEN "calling" ELSE "rehydrate"

\* variant: a failed call is issued again
ReplyBranchRetry(recommendations) ==
    IF NoRecommendations(recommendations) THEN "findMetadata" ELSE "rehydrate"

\* if (!recommendations || !recommendations.recommendations) { fallback } else { re-join }
ReplyBranch(recommendations) ==
    IF NoRecommendations(recommendations) THEN "fallback" ELSE "rehydrate"

\* variant: the last health answer is remembered and short-cuts to the fallback
SimilarBranchCached(similarResult) ==
    IF history.health = "unhealthy" \/ NoSimilar(similarResult)
    THEN "similarFallback" ELSE "similarRehydrate"

\* if (!similarResult || !similarResult.similar_videos) { fallback } else { re-join }
SimilarBranch(similarResult) ==
    IF NoSimilar(similarResult) THEN "similarFallback" ELSE "similarRehydrate"

\* response.data of an empty body of the embedding endpoints
NullAck == [body |-> "null", processed |-> 0, new |-> 0]

\* the summaries POST /embeddings/sync and /embeddings/batch give for n videos
AckData(n) ==
    {NullAck} \cup {[body |-> "object", processed |-> n, new |-> k] : k \in 0..n}

\* what the transport does with one call of an embedding endpoint for n videos
AckOutcomes(n) ==
    {[kind |-> k, data |-> NullAck] : k \in FailureKinds}
    \cup {[kind |-> "ok", data |-> d] : d \in AckData(n)}

\* try { return response.data } catch (error) { return null }
syncEmbeddings(outcome) ==
    IF outcome.kind = "ok" THEN outcome.data ELSE NullAck

\* try { return response.data } catch (error) { return null }
submitBatchEmbeddings(outcome) ==
    IF outcome.kind = "ok" THEN outcome.data ELSE NullAck

\* response.data of DELETE /embeddings/:videoId: an empty body, or what was done
NullDeleted == [body |-> "null", deleted |-> FALSE]

DeleteOutcomes ==
    {[kind |-> k, data |-> NullDeleted] : k \in FailureKinds}
    \cup {[kind |-> "ok", data |-> d] :
            d \in {NullDeleted} \cup {[body |-> "object", deleted |-> b] : b \in BOOLEAN}}

\* try { return response.data } catch (error) { return null }
deleteEmbedding(outcome) ==
    IF outcome.kind = "ok" THEN outcome.data ELSE NullDeleted

\* response.data of GET /health: the JSON body null, an empty body (the string ""),
\* or an object { status }
NullHealth == [body |-> "null", status |-> "none", error |-> "none"]
EmptyHealth == [body |-> "empty", status |-> "none", error |-> "none"]

HealthOutcomes ==
    {[kind |-> k, data |-> NullHealth] : k \in FailureKinds}
    \cup {[kind |-> "ok", data |-> d] :
            d \in {NullHealth, EmptyHealth}
                  \cup {[body |-> "object", status |-> st, error |-> "none"] :
                          st \in {"healthy", "unhealthy", "degraded"}}}

\* an exception that leaves the function instead of a value
Thrown == [body |-> "thrown"]

\* variant: checkHealth without its catch block
checkHealthRethrow(outcome) ==
    IF outcome.kind = "ok" THEN outcome.data ELSE Thrown

\* try { return response.data }
\* catch (error) { return { status: "unhealthy", error: error.message } }
checkHealth(outcome) ==
    IF outcome.kind = "ok" THEN outcome.data
    ELSE [body |-> "object", status |-> "unhealthy", error |-> outcome.kind]

\* !result
NoResult(result) == result.body = "null"

\* variant: the fetched documents are emitted in the order the store returns them
OrderedResultsStoreOrder(recs, videoMap) ==
    LET ids == CHOOSE s \in Perms(DOMAIN videoMap) :
                   \A i, j \in 1..Len(s) : i < j => CreatedAt(s[i]) < CreatedAt(s[j])
        entry(v) == CHOOSE e \in Range(recs) : e.video_id = v
    IN  [i \in 1..Len(ids) |->
            [video |-> videoMap[ids[i]],
             score |-> entry(ids[i]).final_score,
             scoreBreakdown |-> entry(ids[i]).score_breakdown]]

\* variant: the score is read at the index of the filtered list in the unfiltered one
OrderedResultsByIndex(recs, videoMap) ==
    LET kept == SelectSeq(recs, LAMBDA r : r.video_id \in DOMAIN videoMap)
    IN  [i \in 1..Len(kept) |->
            [video |-> videoMap[kept[i].video_id],
             score |-> recs[i].final_score,
             scoreBreakdown |-> recs[i].score_breakdown]]

\* .filter(r => videoMap.has(r.video_id)).map(r => ({video, score, scoreBreakdown}))
OrderedResults(recs, videoMap) ==
    LET kept == SelectSeq(recs, LAMBDA r : r.video_id \in DOMAIN videoMap)
    IN  [i \in 1..Len(kept) |->
            [video |-> videoMap[kept[i].video_id],
             score |-> kept[i].final_score,
             scoreBreakdown |-> kept[i].score_breakdown]]

\* variant: the similarity score is read at the index of the filtered list
OrderedSimilarByIndex(sims, videoMap) ==
    LET kept == SelectSeq(sims, LAMBDA x : x.video_id \in DOMAIN videoMap)
    IN  [i \in 1..Len(kept) |->
            [video |-> videoMap[kept[i].video_id],
             similarityScore |-> sims[i].similarity_score]]

\* .filter(s => videoMap.has(s.video_id)).map(s => ({video, similarityScore}))
OrderedSimilar(sims, videoMap) ==
    LET kept == SelectSeq(sims, LAMBDA x : x.video_id \in DOMAIN videoMap)
    IN  [i \in 1..Len(kept) |->
            [video |-> videoMap[kept[i].video_id],
             similarityScore |-> kept[i].similarity_score]]

\* the ?limit= of a request: absent, or a positive number
LimitQueries ==
    {[given |-> FALSE, limit |-> 0]}
    \cup {[given |-> TRUE, limit |-> n] : n \in 1..MaxLimit}

\* const { limit = default } = req.query; parseInt(limit)
ParseLimit(q, default) == IF q.given THEN q.limit ELSE default

\* [...new Set([...watchedVideoIds, ...likedVideoIds])]
ExcludeVideoIds(watched, liked) == Dedupe(watched \o liked)

\* watchedVideoIds.length === 0 && likedVideoIds.length === 0
NoHistory(watched, liked) == Len(watched) = 0 /\ Len(liked) = 0

----------------------------------------------------------------------------
(* Requests *)

\* the data of a response that carries none
NoData == [body |-> "none"]

NoResponse ==
    [status |-> 0, recommendations |-> <<>>, sourceVideo |-> "none",
     similarVideos |-> <<>>, fallback |-> FALSE, reason |-> "none", data |-> NoData]

Idle ==
    [pc |-> "idle", op |-> "none", userId |-> "none", videoId |-> "none",
     limit |-> 0, watchedVideoIds |-> <<>>, likedVideoIds |-> <<>>,
     excludeVideoIds |-> <<>>, videoMetadata |-> <<>>,
     recommendations |-> NullData, video |-> NoDoc, similarResult |-> NullSimilar,
     videosForSync |-> <<>>, result |-> NullAck,
     extCalls |-> 0, extOutcome |-> "none", res |-> NoResponse]

\* the middleware chain of a slot before a request has arrived
NoRequest ==
    [pc |-> "idle", route |-> "none", token |-> "none", user |-> "none",
     checked |-> FALSE, sent |-> 0]

\* what has gone to and come from the service so far: the last two batches
\* submitted for sync with the catalog they were read from, the status of the last
\* health answer, and how the call of the last answered request ended
BlankHistory == [syncs |-> <<>>, health |-> "unknown", last |-> "none"]

\* the last call through the client: none yet
NoCall ==
    [op |-> "none", arg |-> "none", kind |-> "none", data |-> NoData, returned |-> NoData]

NoHistoryReason == "No user history available - showing popular videos"
UnavailableReason == "Recommendation service unavailable - using popularity fallback"

\* new ApiResponse(200, {recommendations, fallback, reason})
RecommendationResponse(recommendations, fallback, reason) ==
    [NoResponse EXCEPT !.status = 200, !.recommendations = recommendations,
                       !.fallback = fallback, !.reason = reason]

\* variant: an empty list of similar videos is answered as not found
SimilarResponseNotFoundWhenEmpty(videoId, similarVideos, fallback) ==
    IF similarVideos = <<>>
    THEN [NoResponse EXCEPT !.status = 404]
    ELSE [NoResponse EXCEPT !.status = 200, !.sourceVideo = videoId,
                            !.similarVideos = similarVideos, !.fallback = fallback]

\* new ApiResponse(200, {sourceVideo, similarVideos, fallback})
SimilarResponse(videoId, similarVideos, fallback) ==
    [NoResponse EXCEPT !.status = 200, !.sourceVideo = videoId,
                       !.similarVideos = similarVideos, !.fallback = fallback]

\* throw new ApiError(status, ...)
ErrorResponse(status) == [NoResponse EXCEPT !.status = status]

\* { synced: 0, message: "No videos to sync" }
NoVideosToSync == [body |-> "object", synced |-> 0, message |-> "No videos to sync"]

\* new ApiResponse(200, data)
DataResponse(data) == [NoResponse EXCEPT !.status = 200, !.data = data]

\* variant: a failed sync is answered with an empty summary
SyncResponseEmptySummary(result) ==
    IF NoResult(result) THEN [NoResponse EXCEPT !.status = 200, !.data = NoVideosToSync]
    ELSE [NoResponse EXCEPT !.status = 200, !.data = result]

\* if (!result) throw new ApiError(503, ...); else new ApiResponse(200, result)
SyncResponse(result) ==
    IF NoResult(result) THEN ErrorResponse(503) ELSE DataResponse(result)

\* health.status === "healthy" ? 200 : 503
HealthStatusCode(health) == IF health.status = "healthy" THEN 200 ELSE 503

\* health.status on null is a TypeError that leaves the handler (a 500);
\* otherwise new ApiResponse(statusCode, health)
HealthResponse(health) ==
    IF health.body = "null" THEN ErrorResponse(500)
    ELSE [NoResponse EXCEPT !.status = HealthStatusCode(health), !.data = health]

\* how the call of request r ended, for the history: no call, resolved, rejected
CallEnded(r) ==
    CASE req[r].extCalls = 0 -> history.last
      [] req[r].extOutcome = "ok" -> "ok"
      [] OTHER -> "failed"

\* the two most recent submissions, the one just made included
Submitted(syncs, cat, batch) ==
    LET all == Append(syncs, [catalog |-> cat, batch |-> batch])
    IN  IF Len(all) > 2 THEN SubSeq(all, Len(all) - 1, Len(all)) ELSE all

Init ==
    /\ videos = [v \in Videos |->
                   [exists |-> TRUE, isPublished |-> TRUE,
                    views |-> IF v = "V2" THEN 1 ELSE 0]]
    /\ watchHistory =
         [u \in Users |-> IF u = "U3" THEN <<"V1", "V1">> ELSE <<>>]
    /\ likes =
         [u \in Users |-> CASE u = "U2" -> <<"V4">>
                            [] u = "U3" -> <<"V2", "V1">>
                            [] OTHER -> <<>>]
    /\ req = [r \in Reqs |-> Idle]
    /\ auth = [r \in Reqs |-> NoRequest]
    /\ writes = 0
    /\ history = BlankHistory
    /\ client = NoCall

\* GET /personalized reaches the handler
getRecommendations(r, u, q) ==
    /\ req[r].pc = "idle"
    /\ req' = [req EXCEPT ![r] =
                 [Idle EXCEPT !.pc = "findUser", !.op = "personalized",
                              !.userId = u, !.limit = ParseLimit(q, DefaultLimit)]]
    /\ UNCHANGED <<videos, watchHistory, likes, writes, history, client, auth>>

\* await User.findById(userId).select("watchHistory")
FindUser(r) ==
    /\ req[r].pc = "findUser"
    /\ req' = [req EXCEPT ![r].pc = "findLikes",
                          ![r].watchedVideoIds = watchHistory[req[r].userId]]
    /\ UNCHANGED <<videos, watchHistory, likes, writes, history, client, auth>>

\* await Like.find({likedBy: userId, ...}); then the no-history test
FindLikes(r) ==
    /\ req[r].pc = "findLikes"
    /\ LET liked == likes[req[r].userId]
           watched == req[r].watchedVideoIds
       IN  req' = [req EXCEPT
                     ![r].likedVideoIds = liked,
                     ![r].pc = IF NoHistory(watched, liked)
                               THEN "popular" ELSE "findMetadata",
                     ![r].excludeVideoIds =
                         IF NoHistory(watched, liked)
                         THEN <<>> ELSE ExcludeVideoIds(watched, liked)]
    /\ UNCHANGED <<videos, watchHistory, likes, writes, history, client, auth>>

\* Tier 1: the popular videos, fallback: true
PopularFallback(r) ==
    /\ req[r].pc = "popular"
    /\ req' = [req EXCEPT
                 ![r].pc = "done",
                 ![r].res = RecommendationResponse(
                               PopularAggregate(videos, <<>>, req[r].limit),
                               TRUE, NoHistoryReason)]
    /\ UNCHANGED <<videos, watchHistory, likes, writes, history, client, auth>>

\* await Video.find({ isPublished: true }); then the call to the service starts
FindMetadata(r) ==
    /\ req[r].pc = "findMetadata"
    /\ req' = [req EXCEPT ![r].pc = "calling",
                          ![r].videoMetadata = VideoMetadata(videos),
                          ![r].extCalls = @ + 1]
    /\ UNCHANGED <<videos, watchHistory, likes, writes, history, client, auth>>

\* variant: requests of the same user and limit waiting for the service share one
\* call, and its answer goes to all of them
PersonalizedReplyCoalesced(r, outcome) ==
    /\ req[r].pc = "calling"
    /\ LET recommendations == getPersonalizedRecommendations(outcome)
           sharing == {s \in DOMAIN req : /\ req[s].pc = "calling"
                                          /\ req[s].userId = req[r].userId
                                          /\ req[s].limit = req[r].limit}
       IN  req' = [s \in DOMAIN req |->
                     IF s \in sharing
                     THEN [req[s] EXCEPT !.recommendations = recommendations,
                                         !.extOutcome = outcome.kind,
                                         !.pc = ReplyBranch(recommendations)]
                     ELSE req[s]]
    /\ UNCHANGED <<videos, watchHistory, likes, writes, history, client, auth>>

\* await getPersonalizedRecommendations(...) returns; then the fallback test
PersonalizedReply(r, outcome) ==
    /\ req[r].pc = "calling"
    /\ LET recommendations == getPersonalizedRecommendations(outcome)
       IN  req' = [req EXCEPT
                     ![r].recommendations = recommendations,
                     ![r].extOutcome = outcome.kind,
                     ![r].pc = ReplyBranch(recommendations)]
    /\ UNCHANGED <<videos, watchHistory, likes, writes, history, client, auth>>

\* Tier 2: the popular videos outside excludeVideoIds, fallback: true
ServiceFallback(r) ==
    /\ req[r].pc = "fallback"
    /\ req' = [req EXCEPT
                 ![r].pc = "done",
                 ![r].res = RecommendationResponse(
                               PopularAggregate(videos, req[r].excludeVideoIds, req[r].limit),
                               TRUE, UnavailableReason)]
    /\ UNCHANGED <<videos, watchHistory, likes, writes, history, client, auth>>

\* the recommended documents are read and re-emitted in ranked order
Rehydrate(r) ==
    /\ req[r].pc = "rehydrate"
    /\ LET recs == req[r].recommendations.recommendations
           recommendedIds == VideoIds(recs)
           videoMap == FindByIds(videos, recommendedIds)
       IN  req' = [req EXCEPT
                     ![r].pc = "done",
                     ![r].res = RecommendationResponse(
                                   OrderedResults(recs, videoMap), FALSE, "none")]
    /\ UNCHANGED <<videos, watchHistory, likes, writes, history, client, auth>>

\* GET /similar/:videoId reaches the handler; an invalid id is a 400
getSimilar(r, videoId, q) ==
    /\ req[r].pc = "idle"
    /\ req' = [req EXCEPT ![r] =
                 IF ~isValidObjectId(videoId)
                 THEN [Idle EXCEPT !.pc = "done", !.op = "similar", !.videoId = videoId,
                                   !.limit = ParseLimit(q, DefaultSimilarLimit),
                                   !.res = ErrorResponse(400)]
                 ELSE [Idle EXCEPT !.pc = "findVideo", !.op = "similar",
                                   !.videoId = videoId,
                                   !.limit = ParseLimit(q, DefaultSimilarLimit)]]
    /\ UNCHANGED <<videos, watchHistory, likes, writes, history, client, auth>>

\* variant: the source video is read with findByIdAndUpdate and { $inc: { views: 1 } }
FindVideoCountingView(r) ==
    /\ req[r].pc = "findVideo"
    /\ LET id == req[r].videoId
           found == id \in Videos /\ videos[id].exists
       IN  /\ req' = [req EXCEPT
                        ![r].pc = IF found THEN "callingSimilar" ELSE "done",
                        ![r].video = IF found THEN Doc(videos, id) ELSE NoDoc,
                        ![r].extCalls = IF found THEN @ + 1 ELSE @,
                        ![r].res = IF found THEN @ ELSE ErrorResponse(404)]
           /\ videos' = IF found THEN [videos EXCEPT ![id].views = @ + 1] ELSE videos
    /\ UNCHANGED <<watchHistory, likes, writes, history, client, auth>>

\* await Video.findById(videoId): a 404, or the call to the service starts
FindVideo(r) ==
    /\ req[r].pc = "findVideo"
    /\ LET id == req[r].videoId
           found == id \in Videos /\ videos[id].exists
       IN  req' = [req EXCEPT
                     ![r].pc = IF found THEN "callingSimilar" ELSE "done",
                     ![r].video = IF found THEN Doc(videos, id) ELSE NoDoc,
                     ![r].extCalls = IF found THEN @ + 1 ELSE @,
                     ![r].res = IF found THEN @ ELSE ErrorResponse(404)]
    /\ UNCHANGED <<videos, watchHistory, likes, writes, history, client, auth>>

\* await getSimilarVideos(videoId, limit) returns; then the fallback test
SimilarReply(r, outcome) ==
    /\ req[r].pc = "callingSimilar"
    /\ LET similarResult == getSimilarVideos(outcome)
       IN  req' = [req EXCEPT
                     ![r].similarResult = similarResult,
                     ![r].extOutcome = outcome.kind,
                     ![r].pc = SimilarBranch(similarResult)]
    /\ UNCHANGED <<videos, watchHistory, likes, writes, history, client, auth>>

\* the other published videos of the same owner, fallback: true
SimilarFallback(r) ==
    /\ req[r].pc = "similarFallback"
    /\ \E sorted \in SortByViews(videos,
                       MatchSameOwner(videos, req[r].videoId, req[r].video.owner)) :
         LET ids == Take(sorted, req[r].limit)
             fallbackVideos == [i \in 1..Len(ids) |-> Doc(videos, ids[i])]
         IN  req' = [req EXCEPT
                       ![r].pc = "done",
                       ![r].res = SimilarResponse(req[r].videoId, fallbackVideos, TRUE)]
    /\ UNCHANGED <<videos, watchHistory, likes, writes, history, client, auth>>

\* the similar documents are read and re-emitted in ranked order
SimilarRehydrate(r) ==
    /\ req[r].pc = "similarRehydrate"
    /\ LET sims == req[r].similarResult.similar_videos
           similarIds == VideoIds(sims)
           videoMap == FindByIds(videos, similarIds)
       IN  req' = [req EXCEPT
                     ![r].pc = "done",
                     ![r].res = SimilarResponse(req[r].videoId,
                                                OrderedSimilar(sims, videoMap), FALSE)]
    /\ UNCHANGED <<videos, watchHistory, likes, writes, history, client, auth>>

\* POST /sync reaches the handler
syncVideoEmbeddings(r) ==
    /\ req[r].pc = "idle"
    /\ req' = [req EXCEPT ![r] = [Idle EXCEPT !.pc = "findPublished", !.op = "sync"]]
    /\ UNCHANGED <<videos, watchHistory, likes, writes, history, client, auth>>

\* await Video.find({ isPublished: true }): nothing to sync, or the batch is built
\* and the call to the service starts
FindPublishedVideos(r) ==
    /\ req[r].pc = "findPublished"
    /\ LET found == FindPublished(videos)
           videosForSync == VideosForSync(found)
       IN  IF NothingToSync(found)
           THEN /\ req' = [req EXCEPT ![r].pc = "done",
                                      ![r].res = DataResponse(NoVideosToSync)]
                /\ UNCHANGED history
           ELSE /\ req' = [req EXCEPT ![r].pc = "syncing",
                                      ![r].videosForSync = videosForSync,
                                      ![r].extCalls = @ + 1]
                /\ history' = [history EXCEPT
                                 !.syncs = Submitted(@, videos, videosForSync)]
    /\ UNCHANGED <<videos, watchHistory, likes, writes, client, auth>>

\* await syncEmbeddings(videosForSync) returns: a 503, or the summary is passed on
SyncReply(r, outcome) ==
    /\ req[r].pc = "syncing"
    /\ LET result == syncEmbeddings(outcome)
       IN  req' = [req EXCEPT ![r].result = result,
                              ![r].extOutcome = outcome.kind,
                              ![r].pc = "done",
                              ![r].res = SyncResponse(result)]
    /\ UNCHANGED <<videos, watchHistory, likes, writes, history, client, auth>>

\* the response has gone out and the handler's locals are dropped
ResponseSent(r) ==
    /\ req[r].pc = "done"
    /\ req' = [req EXCEPT ![r] = Idle]
    /\ UNCHANGED <<videos, watchHistory, likes, writes, history, client, auth>>

\* the same step as ResponseSent, with the end of the request's call kept as history
ResponseLogged(r) ==
    /\ req[r].pc = "done"
    /\ req' = [req EXCEPT ![r] = Idle]
    /\ history' = [history EXCEPT !.last = CallEnded(r)]
    /\ UNCHANGED <<videos, watchHistory, likes, writes, client, auth>>

\* GET /health reaches the handler and the call to the service starts
getRecommendationHealth(r) ==
    /\ req[r].pc = "idle"
    /\ req' = [req EXCEPT ![r] =
                 [Idle EXCEPT !.pc = "checkingHealth", !.op = "health", !.extCalls = 1]]
    /\ UNCHANGED <<videos, watchHistory, likes, writes, history, client, auth>>

\* await checkHealth() returns; 200 for a healthy service, 503 otherwise
HealthReply(r, outcome) ==
    /\ req[r].pc = "checkingHealth"
    /\ LET health == checkHealth(outcome)
       IN  /\ req' = [req EXCEPT ![r].pc = "done",
                                 ![r].extOutcome = outcome.kind,
                                 ![r].res = HealthResponse(health)]
           /\ history' = [history EXCEPT
                            !.health = IF health.status = "healthy"
                                       THEN "healthy" ELSE "unhealthy"]
    /\ UNCHANGED <<videos, watchHistory, likes, writes, client, auth>>

----------------------------------------------------------------------------
(* Catalog writes of the video controller *)

\* getVideoById: { $inc: { views: 1 } }
getVideoById(v) ==
    /\ writes < MaxWrites
    /\ videos[v].exists
    /\ videos' = [videos EXCEPT ![v].views = @ + 1]
    /\ writes' = writes + 1
    /\ UNCHANGED <<watchHistory, likes, req, history, client, auth>>

\* togglePublishStatus: { $set: { isPublished: !video.isPublished } }
togglePublishStatus(v) ==
    /\ writes < MaxWrites
    /\ videos[v].exists
    /\ videos' = [videos EXCEPT ![v].isPublished = ~@]
    /\ writes' = writes + 1
    /\ UNCHANGED <<watchHistory, likes, req, history, client, auth>>

\* deleteVideo: Video.findByIdAndDelete(videoId)
deleteVideo(v) ==
    /\ writes < MaxWrites
    /\ videos[v].exists
    /\ videos' = [videos EXCEPT ![v] = Gone]
    /\ writes' = writes + 1
    /\ UNCHANGED <<watchHistory, likes, req, history, client, auth>>

Next ==
    \/ \E r \in Reqs, u \in Users, q \in LimitQueries : getRecommendations(r, u, q)
    \/ \E r \in Reqs : FindUser(r)
    \/ \E r \in Reqs : FindLikes(r)
    \/ \E r \in Reqs : PopularFallback(r)
    \/ \E r \in Reqs : FindMetadata(r)
    \/ \E r \in Reqs, o \in PersonalizedOutcomes : PersonalizedReply(r, o)
    \/ \E r \in Reqs : ServiceFallback(r)
    \/ \E r \in Reqs : Rehydrate(r)
    \/ \E r \in Reqs, id \in Videos \cup {BadId, UnknownId}, q \in LimitQueries :
           getSimilar(r, id, q)
    \/ \E r \in Reqs : FindVideo(r)
    \/ \E r \in Reqs, o \in SimilarOutcomes : SimilarReply(r, o)
    \/ \E r \in Reqs : SimilarFallback(r)
    \/ \E r \in Reqs : SimilarRehydrate(r)
    \/ \E r \in Reqs : ResponseSent(r)
    \/ \E v \in Videos : getVideoById(v)
    \/ \E v \in Videos : togglePublishStatus(v)
    \/ \E v \in Videos : deleteVideo(v)

Spec == Init /\ [][Next]_vars

----------------------------------------------------------------------------
(* The sync route on a catalog of any publication status *)

SyncInit ==
    /\ videos \in {[v \in Videos |->
                      [exists |-> TRUE, isPublished |-> v \in P,
                       views |-> IF v = "V2" THEN 1 ELSE 0]] : P \in SUBSET Videos}
    /\ watchHistory = [u \in Users |-> <<>>]
    /\ likes = [u \in Users |-> <<>>]
    /\ req = [r \in Reqs |-> Idle]
    /\ auth = [r \in Reqs |-> NoRequest]
    /\ writes = 0
    /\ history = BlankHistory
    /\ client = NoCall

SyncNext ==
    \/ \E r \in Reqs : syncVideoEmbeddings(r)
    \/ \E r \in Reqs : FindPublishedVideos(r)
    \/ \E r \in Reqs : \E o \in AckOutcomes(Len(req[r].videosForSync)) : SyncReply(r, o)
    \/ \E r \in Reqs : ResponseSent(r)
    \/ \E v \in Videos : togglePublishStatus(v)
    \/ \E v \in Videos : deleteVideo(v)

SyncSpec == SyncInit /\ [][SyncNext]_vars

----------------------------------------------------------------------------
(* The read routes and the health route, with the history of the calls *)

HistoryNext ==
    \/ \E r \in Reqs, u \in Users, q \in LimitQueries : getRecommendations(r, u, q)
    \/ \E r \in Reqs : FindUser(r)
    \/ \E r \in Reqs : FindLikes(r)
    \/ \E r \in Reqs : PopularFallback(r)
    \/ \E r \in Reqs : FindMetadata(r)
    \/ \E r \in Reqs, o \in PersonalizedOutcomes : PersonalizedReply(r, o)
    \/ \E r \in Reqs : ServiceFallback(r)
    \/ \E r \in Reqs : Rehydrate(r)
    \/ \E r \in Reqs, id \in Videos \cup {BadId, UnknownId}, q \in LimitQueries :
           getSimilar(r, id, q)
    \/ \E r \in Reqs : FindVideo(r)
    \/ \E r \in Reqs, o \in SimilarOutcomes : SimilarReply(r, o)
    \/ \E r \in Reqs : SimilarFallback(r)
    \/ \E r \in Reqs : SimilarRehydrate(r)
    \/ \E r \in Reqs : getRecommendationHealth(r)
    \/ \E r \in Reqs, o \in HealthOutcomes : HealthReply(r, o)
    \/ \E r \in Reqs : ResponseLogged(r)

HistorySpec == Init /\ [][HistoryNext]_vars

----------------------------------------------------------------------------
(* Two requests of the read routes in flight at the same time *)

Slots == {"r1", "r2"}

\* a request without ?limit=
NoLimit == [given |-> FALSE, limit |-> 0]

\* the outcomes drawn for the calls: rejected, or a list of at most one video
ConcurrentPersonalized ==
    {o \in PersonalizedOutcomes :
        \/ o.kind = "error"
        \/ o.kind = "ok" /\ o.data.list = "array" /\ Len(o.data.recommendations) <= 1}

ConcurrentSimilar ==
    {o \in SimilarOutcomes :
        \/ o.kind = "error"
        \/ o.kind = "ok" /\ o.data.list = "array" /\ Len(o.data.similar_videos) <= 1}

ConcurrentInit ==
    /\ videos = [v \in Videos |->
                   [exists |-> TRUE, isPublished |-> TRUE,
                    views |-> IF v = "V2" THEN 1 ELSE 0]]
    /\ watchHistory =
         [u \in Users |-> IF u = "U3" THEN <<"V1", "V1">> ELSE <<>>]
    /\ likes =
         [u \in Users |-> CASE u = "U2" -> <<"V4">>
                            [] u = "U3" -> <<"V2", "V1">>
                            [] OTHER -> <<>>]
    /\ req = [r \in Slots |-> Idle]
    /\ auth = [r \in Slots |-> NoRequest]
    /\ writes = 0
    /\ history = BlankHistory
    /\ client = NoCall

\* a request arrives in slot r
RequestStart(r) ==
    \/ \E u \in Users : getRecommendations(r, u, NoLimit)
    \/ \E id \in {"V1", "V4", BadId} : getSimilar(r, id, NoLimit)

\* the request in slot r takes its next step
RequestStep(r) ==
    \/ FindUser(r)
    \/ FindLikes(r)
    \/ PopularFallback(r)
    \/ FindMetadata(r)
    \/ \E o \in ConcurrentPersonalized : PersonalizedReply(r, o)
    \/ ServiceFallback(r)
    \/ Rehydrate(r)
    \/ FindVideo(r)
    \/ \E o \in ConcurrentSimilar : SimilarReply(r, o)
    \/ SimilarFallback(r)
    \/ SimilarRehydrate(r)
    \/ ResponseSent(r)

ConcurrentNext ==
    \/ \E r \in Slots : RequestStart(r)
    \/ \E r \in Slots : RequestStep(r)
    \/ \E v \in Videos : deleteVideo(v)

ConcurrentSpec == ConcurrentInit /\ [][ConcurrentNext]_vars

----------------------------------------------------------------------------
(* All four routes of the router, interleaved with the catalog writes *)

AllRoutesNext ==
    \/ \E r \in Reqs : RequestStart(r)
    \/ \E r \in Reqs : RequestStep(r)
    \/ \E r \in Reqs : syncVideoEmbeddings(r)
    \/ \E r \in Reqs : FindPublishedVideos(r)
    \/ \E r \in Reqs : \E o \in AckOutcomes(Len(req[r].videosForSync)) : SyncReply(r, o)
    \/ \E r \in Reqs : getRecommendationHealth(r)
    \/ \E r \in Reqs, o \in HealthOutcomes : HealthReply(r, o)
    \/ \E v \in Videos : getVideoById(v)
    \/ \E v \in Videos : togglePublishStatus(v)
    \/ \E v \in Videos : deleteVideo(v)

AllRoutesSpec == Init /\ [][AllRoutesNext]_vars

----------------------------------------------------------------------------
(* The personalized route with its awaits resolving *)

PersonalizedNext ==
    \/ \E r \in Reqs, u \in Users, q \in LimitQueries : getRecommendations(r, u, q)
    \/ \E r \in Reqs : FindUser(r)
    \/ \E r \in Reqs : FindLikes(r)
    \/ \E r \in Reqs : PopularFallback(r)
    \/ \E r \in Reqs : FindMetadata(r)
    \/ \E r \in Reqs, o \in PersonalizedOutcomes : PersonalizedReply(r, o)
    \/ \E r \in Reqs : ServiceFallback(r)
    \/ \E r \in Reqs : Rehydrate(r)
    \/ \E r \in Reqs : ResponseSent(r)
    \/ \E v \in Videos : deleteVideo(v)

\* every await of the handler settles: the store answers each query, and axios
\* resolves or rejects each call within the timeout of the client
AwaitsSettle ==
    /\ WF_vars(\E r \in Reqs : FindUser(r))
    /\ WF_vars(\E r \in Reqs : FindLikes(r))
    /\ WF_vars(\E r \in Reqs : PopularFallback(r))
    /\ WF_vars(\E r \in Reqs : FindMetadata(r))
    /\ WF_vars(\E r \in Reqs, o \in PersonalizedOutcomes : PersonalizedReply(r, o))
    /\ WF_vars(\E r \in Reqs : ServiceFallback(r))
    /\ WF_vars(\E r \in Reqs : Rehydrate(r))

PersonalizedSpec == Init /\ [][PersonalizedNext]_vars /\ AwaitsSettle

----------------------------------------------------------------------------
(* The router: verifyJWT in front of the protected routes *)

\* the routes of the router, /health registered before router.use(verifyJWT)
Routes == {"health", "personalized", "similar", "sync"}

ProtectedRoutes == {"personalized", "similar", "sync"}

\* what a request carries as its access token (cookie or Authorization header):
\* nothing, a token jwt.verify rejects, or a token jwt.verify accepts
Tokens == {"missing", "invalid", "valid"}

\* User.findOne(decodedToken?._id) is given the id itself as its filter, not an
\* object: depending on the Mongoose build the query is rejected, or it runs
\* with a filter that is not the token's id and finds no user or some user
FindOneOutcomes == {"throws", "none"} \cup Users

\* a request arrives at the router; /health goes straight to its handler, the
\* other routes meet verifyJWT first
Request(r, route, token) ==
    /\ auth[r].pc \in {"idle", "responded"}
    /\ req[r].pc = "idle"
    /\ auth' = [auth EXCEPT ![r] =
                    [NoRequest EXCEPT
                        !.pc = IF route \in ProtectedRoutes THEN "verifyJWT" ELSE "handler",
                        !.route = route,
                        !.token = token]]
    /\ UNCHANGED <<videos, watchHistory, likes, req, writes, history, client>>

\* verifyJWT up to its await: without a token it throws ApiError(401), on a bad
\* token jwt.verify throws; both land in the catch block, which builds an
\* ApiResponse it never sends and does not call next(): the middleware returns
verifyJWT(r) ==
    /\ auth[r].pc = "verifyJWT"
    /\ auth' = [auth EXCEPT ![r].checked = TRUE,
                            ![r].pc = IF auth[r].token = "valid" THEN "findOne"
                                      ELSE "returned"]
    /\ UNCHANGED <<videos, watchHistory, likes, req, writes, history, client>>

\* the await of User.findOne settles: with a user, req.user = user and next();
\* on a rejected query or no user the catch block runs and the middleware returns
FindOneUser(r, outcome) ==
    /\ auth[r].pc = "findOne"
    /\ auth' = [auth EXCEPT ![r].pc = IF outcome \in Users THEN "handler" ELSE "returned",
                            ![r].user = IF outcome \in Users THEN outcome ELSE "none"]
    /\ UNCHANGED <<videos, watchHistory, likes, req, writes, history, client>>

\* control has reached the route's handler, which starts
RouteHandler(r) ==
    /\ auth[r].pc = "handler"
    /\ \/ /\ auth[r].route = "health"
          /\ getRecommendationHealth(r)
       \/ /\ auth[r].route = "personalized"
          /\ getRecommendations(r, auth[r].user, NoLimit)
       \/ /\ auth[r].route = "similar"
          /\ \E id \in {"V1", "V4", BadId} : getSimilar(r, id, NoLimit)
       \/ /\ auth[r].route = "sync"
          /\ syncVideoEmbeddings(r)

\* the handler takes its next step
HandlerStep(r) ==
    \/ FindUser(r)
    \/ FindLikes(r)
    \/ PopularFallback(r)
    \/ FindMetadata(r)
    \/ \E o \in ConcurrentPersonalized : PersonalizedReply(r, o)
    \/ ServiceFallback(r)
    \/ Rehydrate(r)
    \/ FindVideo(r)
    \/ \E o \in ConcurrentSimilar : SimilarReply(r, o)
    \/ SimilarFallback(r)
    \/ SimilarRehydrate(r)
    \/ FindPublishedVideos(r)
    \/ \E o \in AckOutcomes(Len(req[r].videosForSync)) : SyncReply(r, o)
    \/ \E o \in HealthOutcomes : HealthReply(r, o)

\* res.status(...).json(...) of the handler, or the error response for what it
\* threw: the request has its response
HandlerResponded(r) ==
    /\ auth[r].pc = "handler"
    /\ req[r].pc = "done"
    /\ auth' = [auth EXCEPT ![r].pc = "responded", ![r].sent = @ + 1]
    /\ UNCHANGED <<videos, watchHistory, likes, req, writes, history, client>>

\* the handler of an answered request is over
HandlerOver(r) ==
    /\ auth[r].pc = "responded"
    /\ ResponseSent(r)

RouterNext ==
    \/ \E r \in Reqs, route \in Routes, token \in Tokens : Request(r, route, token)
    \/ \E r \in Reqs : verifyJWT(r)
    \/ \E r \in Reqs, o \in FindOneOutcomes : FindOneUser(r, o)
    \/ \E r \in Reqs : RouteHandler(r)
    \/ \E r \in Reqs : HandlerStep(r)
    \/ \E r \in Reqs : HandlerResponded(r)
    \/ \E r \in Reqs : HandlerOver(r)
    \/ \E v \in Videos : deleteVideo(v)

RouterSpec == Init /\ [][RouterNext]_vars

----------------------------------------------------------------------------
(* The operations of the client, each on every outcome of the transport *)

\* the record of a call: operation op with argument arg, what the transport did,
\* and what the operation gave back
Returned(op, arg, outcome, returned) ==
    [op |-> op, arg |-> arg, kind |-> outcome.kind, data |-> outcome.data,
     returned |-> returned]

CallPersonalized(outcome) ==
    /\ client' = Returned("personalized", "none", outcome,
                          getPersonalizedRecommendations(outcome))
    /\ UNCHANGED <<videos, watchHistory, likes, req, writes, history, auth>>

CallSimilar(outcome) ==
    /\ client' = Returned("similar", "none", outcome, getSimilarVideos(outcome))
    /\ UNCHANGED <<videos, watchHistory, likes, req, writes, history, auth>>

CallBatch(outcome) ==
    /\ client' = Returned("batch", "none", outcome, submitBatchEmbeddings(outcome))
    /\ UNCHANGED <<videos, watchHistory, likes, req, writes, history, auth>>

CallSync(outcome) ==
    /\ client' = Returned("sync", "none", outcome, syncEmbeddings(outcome))
    /\ UNCHANGED <<videos, watchHistory, likes, req, writes, history, auth>>

CallDelete(videoId, outcome) ==
    /\ client' = Returned("delete", videoId, outcome, deleteEmbedding(outcome))
    /\ UNCHANGED <<videos, watchHistory, likes, req, writes, history, auth>>

CallHealth(outcome) ==
    /\ client' = Returned("health", "none", outcome, checkHealth(outcome))
    /\ UNCHANGED <<videos, watchHistory, likes, req, writes, history, auth>>

ClientNext ==
    \/ \E o \in PersonalizedOutcomes : CallPersonalized(o)
    \/ \E o \in SimilarOutcomes : CallSimilar(o)
    \/ \E n \in 0..Cardinality(Videos) : \E o \in AckOutcomes(n) : CallBatch(o)
    \/ \E n \in 0..Cardinality(Videos) : \E o \in AckOutcomes(n) : CallSync(o)
    \/ \E v \in Videos, o \in DeleteOutcomes : CallDelete(v, o)
    \/ \E o \in HealthOutcomes : CallHealth(o)

ClientSpec == Init /\ [][ClientNext]_vars

----------------------------------------------------------------------------
(* Properties *)

Recs(r) == req[r].res.recommendations

PersonalizedDone(r) == req[r].op = "personalized" /\ req[r].pc = "done"

\* the ranked list the service returned to request r
Ranked(r) == req[r].recommendations.recommendations

\* request r answered from the ranked list
Success(r) == PersonalizedDone(r) /\ req[r].recommendations.list = "array"

\* the user of request r has neither watched nor liked anything
EmptyHistory(r) ==
    watchHistory[req[r].userId] = <<>> /\ likes[req[r].userId] = <<>>

\* the watched and the liked videos of the user of request r
ExclusionSet(r) ==
    Range(watchHistory[req[r].userId]) \cup Range(likes[req[r].userId])

\* the personalized request r takes its last step
Completes(r) ==
    req[r].op = "personalized" /\ req[r].pc # "done" /\ req'[r].pc = "done"

\* out is the published videos of cat outside excluded, by (views, createdAt)
\* descending, cut to limit
IsPopularityRanking(out, cat, excluded, limit) ==
    LET cand == {v \in Videos : cat[v].exists /\ cat[v].isPublished /\ v \notin excluded}
    IN  /\ Len(out) = Min(limit, Cardinality(cand))
        /\ \A i \in 1..Len(out) :
              out[i]._id \in cand /\ out[i].views = cat[out[i]._id].views
        /\ \A i, j \in 1..Len(out) :
              i < j => \/ out[i].views > out[j].views
                       \/ /\ out[i].views = out[j].views
                          /\ CreatedAt(out[i]._id) > CreatedAt(out[j]._id)
        /\ \A v \in cand : \A i \in 1..Len(out) :
              \/ v \in {out[k]._id : k \in 1..Len(out)}
              \/ out[i].views > cat[v].views
              \/ out[i].views = cat[v].views /\ CreatedAt(out[i]._id) > CreatedAt(v)

\* C1: when the ranked list is re-joined with the catalog, the output is the ranked
\* list without the entries whose video the catalog does not hold, in the same
\* order: its length is the number of ranked entries found.
C1_RankedOrderKept ==
    [][\A r \in Reqs :
         (req[r].pc = "rehydrate" /\ req'[r].pc = "done") =>
            LET found == SelectSeq(Ranked(r), LAMBDA e : videos[e.video_id].exists)
                out == req'[r].res.recommendations
            IN  /\ Len(out) = Len(found)
                /\ \A i \in 1..Len(found) : out[i].video._id = found[i].video_id]_vars

\* a ranked list of two whose second video was deleted gives one entry
C1_Witness ==
    \E r \in Reqs :
        /\ Success(r)
        /\ Len(Ranked(r)) = 2
        /\ ~videos[Ranked(r)[2].video_id].exists
        /\ Len(Recs(r)) = 1
        /\ Recs(r)[1].video._id = Ranked(r)[1].video_id

\* C2: a user without watch history and without likes gets fallback: true with the
\* no-history reason and exactly the published videos by (views, createdAt)
\* descending, cut to limit.
C2_NoHistoryPopular ==
    [][\A r \in Reqs :
         (Completes(r) /\ EmptyHistory(r)) =>
            /\ req'[r].res.status = 200
            /\ req'[r].res.fallback
            /\ req'[r].res.reason = NoHistoryReason
            /\ IsPopularityRanking(req'[r].res.recommendations, videos, {}, req[r].limit)]_vars

\* a Tier 1 answer cut to two, led by an older video with more views
C2_Witness ==
    \E r \in Reqs :
        /\ PersonalizedDone(r)
        /\ req[r].res.reason = NoHistoryReason
        /\ req[r].limit = 2
        /\ Len(Recs(r)) = 2
        /\ Recs(r)[1].views > Recs(r)[2].views
        /\ CreatedAt(Recs(r)[1]._id) < CreatedAt(Recs(r)[2]._id)

\* the call of request r failed, timed out, or brought no ranked list
CallUnusable(r) ==
    \/ req[r].extOutcome \in FailureKinds
    \/ req[r].extOutcome = "ok" /\ req[r].recommendations.list = "absent"

SimilarDone(r) == req[r].op = "similar" /\ req[r].pc = "done" /\ req[r].res.status = 200

\* C4: no fallback answer holds an excluded video: for a personalized request the
\* exclusion list is the watched and the liked ids, each once; for a similar-videos
\* request it is the source video.
C4_FallbackExcludes ==
    \A r \in Reqs :
        /\ (req[r].op = "personalized" /\ req[r].pc \notin {"findUser", "findLikes"}) =>
              /\ Range(req[r].excludeVideoIds) = ExclusionSet(r)
              /\ Len(req[r].excludeVideoIds) = Cardinality(ExclusionSet(r))
        /\ (PersonalizedDone(r) /\ req[r].res.fallback) =>
              \A i \in 1..Len(Recs(r)) : Recs(r)[i]._id \notin ExclusionSet(r)
        /\ (SimilarDone(r) /\ req[r].res.fallback) =>
              \A i \in 1..Len(req[r].res.similarVideos) :
                  req[r].res.similarVideos[i]._id # req[r].videoId

\* a Tier 2 answer that leaves out a published video with more views than its first
C4_Witness ==
    \E r \in Reqs :
        /\ PersonalizedDone(r)
        /\ req[r].res.reason = UnavailableReason
        /\ Len(Recs(r)) >= 1
        /\ \E v \in ExclusionSet(r) :
              /\ videos[v].exists /\ videos[v].isPublished
              /\ videos[v].views > Recs(r)[1].views

\* C5: an answer of the service with an empty ranked list is handled as a failed
\* call, by the fallback, and never returned with fallback: false.
C5_EmptyListFallsBack ==
    \A r \in Reqs :
        /\ (PersonalizedDone(r) /\ req[r].extCalls > 0
              /\ (CallUnusable(r) \/ Ranked(r) = <<>>)) => req[r].res.fallback
        /\ (SimilarDone(r)
              /\ (req[r].extOutcome # "ok" \/ req[r].similarResult.list = "absent"
                    \/ req[r].similarResult.similar_videos = <<>>)) => req[r].res.fallback

\* the ids of the answer of request r, in order
RecIds(r) ==
    IF req[r].res.fallback
    THEN [i \in 1..Len(Recs(r)) |-> Recs(r)[i]._id]
    ELSE [i \in 1..Len(Recs(r)) |-> Recs(r)[i].video._id]

\* C6: no video appears twice in the recommendations of a personalized answer,
\* whatever ranked list the service returned.
C6_NoDuplicates ==
    \A r \in Reqs :
        PersonalizedDone(r) =>
            \A i, j \in 1..Len(RecIds(r)) : i # j => RecIds(r)[i] # RecIds(r)[j]

\* C7 as stated: every personalized answer has at most limit entries
C7_AtMostLimit ==
    \A r \in Reqs : PersonalizedDone(r) => Len(Recs(r)) <= req[r].limit

\* C7: a fallback answer has at most limit entries; an answer from the ranked list
\* is not cut again and has at most as many entries as the ranked list.
C7_FallbackTruncated ==
    \A r \in Reqs :
        PersonalizedDone(r) =>
            /\ req[r].res.fallback => Len(Recs(r)) <= req[r].limit
            /\ ~req[r].res.fallback => Len(Recs(r)) <= Len(Ranked(r))

\* a fallback answer cut to limit while more videos qualified
C7_Witness ==
    \E r \in Reqs :
        /\ PersonalizedDone(r)
        /\ req[r].res.fallback
        /\ Len(Recs(r)) = req[r].limit
        /\ Cardinality({v \in Videos : videos[v].isPublished} \ ExclusionSet(r))
              > req[r].limit

\* C8: every video of an answer built from the ranked list was in the catalog and
\* published when it was read back; the others are dropped without an error.
C8_OnlyPublished ==
    \A r \in Reqs :
        Success(r) =>
            /\ req[r].res.status = 200
            /\ ~req[r].res.fallback
            /\ \A i \in 1..Len(Recs(r)) : Recs(r)[i].video.isPublished

\* C9: every entry of an answer built from the ranked list carries the score and
\* the breakdown of a ranked entry for the same video, and fallback is false.
C9_ScoresAttached ==
    \A r \in Reqs :
        Success(r) =>
            /\ ~req[r].res.fallback
            /\ \A i \in 1..Len(Recs(r)) :
                  \E j \in 1..Len(Ranked(r)) :
                      /\ Ranked(r)[j].video_id = Recs(r)[i].video._id
                      /\ Ranked(r)[j].final_score = Recs(r)[i].score
                      /\ Ranked(r)[j].score_breakdown = Recs(r)[i].scoreBreakdown

\* the first ranked video is gone and the second keeps its own score
C9_Witness ==
    \E r \in Reqs :
        /\ Success(r)
        /\ Len(Ranked(r)) = 2
        /\ Len(Recs(r)) = 1
        /\ ~videos[Ranked(r)[1].video_id].exists
        /\ Recs(r)[1].video._id = Ranked(r)[2].video_id
        /\ Recs(r)[1].score = Ranked(r)[2].final_score
        /\ Recs(r)[1].score # Ranked(r)[1].final_score

\* C10: a request calls the service at most once: not at all on the no-history
\* path, once otherwise, and a failed or timed-out call is followed by the
\* fallback, not by another call.
C10_OneCall ==
    \A r \in Reqs :
        /\ req[r].extCalls <= 1
        /\ (req[r].op = "personalized" /\ req[r].pc \in {"popular", "done"}
              /\ EmptyHistory(r)) => req[r].extCalls = 0
        /\ (PersonalizedDone(r) /\ ~EmptyHistory(r)) => req[r].extCalls = 1
        /\ req[r].extOutcome \in FailureKinds =>
              /\ req[r].extCalls = 1
              /\ req[r].pc \in {"fallback", "similarFallback", "done"}
              /\ req[r].pc = "done" => req[r].res.fallback

\* a timed-out call answered by the fallback after one call
C10_Witness ==
    \E r \in Reqs :
        /\ PersonalizedDone(r)
        /\ req[r].extOutcome = "timeout"
        /\ req[r].extCalls = 1
        /\ req[r].res.fallback

\* the similar-videos request r was turned down with this status
Rejected(r, status) ==
    /\ req[r].pc = "done"
    /\ req[r].res = ErrorResponse(status)
    /\ req[r].extCalls = 0
    /\ req[r].extOutcome = "none"

\* C11: a similar-videos request with a malformed videoId ends with status 400, one
\* with a well-formed videoId that has no document ends with status 404; either
\* way the service was not called and the answer carries no fallback and no videos.
C11_InvalidRejected ==
    [][\A r \in Reqs :
         /\ (req[r].pc = "idle" /\ req'[r].op = "similar"
               /\ req'[r].videoId = BadId) => Rejected(r, 400)'
         /\ (req[r].pc = "findVideo" /\ req'[r].pc # "findVideo"
               /\ ~(req[r].videoId \in Videos /\ videos[req[r].videoId].exists))
              => Rejected(r, 404)'
         /\ req'[r].res.status \in {400, 404} =>
               /\ req'[r].extCalls = 0
               /\ ~req'[r].res.fallback
               /\ req'[r].res.similarVideos = <<>>]_vars

\* the id of a deleted video is answered with 404 and without a call
C11_Witness ==
    \E r \in Reqs :
        /\ req[r].op = "similar"
        /\ req[r].videoId \in Videos
        /\ ~videos[req[r].videoId].exists
        /\ Rejected(r, 404)

\* the similar-videos request r takes its last step
SimilarCompletes(r) ==
    req[r].op = "similar" /\ req[r].pc # "done" /\ req'[r].pc = "done"

\* the similarity call of request r failed or brought no list
SimilarUnusable(r) ==
    \/ req[r].extOutcome \in FailureKinds
    \/ req[r].extOutcome = "ok" /\ req[r].similarResult.list = "absent"

\* out is the published videos of cat of this owner other than source, by views
\* descending, cut to limit
IsSameOwnerRanking(out, cat, source, owner, limit) ==
    LET cand == {v \in Videos : /\ cat[v].exists /\ cat[v].isPublished
                                /\ v # source /\ Owner(v) = owner}
        ids == {out[i]._id : i \in 1..Len(out)}
    IN  /\ Len(out) = Min(limit, Cardinality(cand))
        /\ Cardinality(ids) = Len(out)
        /\ ids \subseteq cand
        /\ \A i \in 1..Len(out) : out[i].views = cat[out[i]._id].views
        /\ \A i, j \in 1..Len(out) : i < j => out[i].views >= out[j].views
        /\ \A v \in cand \ ids : \A i \in 1..Len(out) : out[i].views >= cat[v].views

Similar(r) == req[r].similarResult.similar_videos

\* C13: when the service returns a list of similar videos, the answer has fallback:
\* false and is that list without the entries whose video the catalog does not
\* hold, in the same order, each with the similarity score of its entry.
C13_SimilarOrderKept ==
    [][\A r \in Reqs :
         (req[r].pc = "similarRehydrate" /\ req'[r].pc = "done") =>
            LET found == SelectSeq(Similar(r), LAMBDA e : videos[e.video_id].exists)
                out == req'[r].res.similarVideos
            IN  /\ req'[r].res.status = 200
                /\ ~req'[r].res.fallback
                /\ Len(out) = Len(found)
                /\ \A i \in 1..Len(found) :
                      /\ out[i].video._id = found[i].video_id
                      /\ out[i].similarityScore = found[i].similarity_score]_vars

\* the first similar video is gone and the second keeps its own score
C13_Witness ==
    \E r \in Reqs :
        /\ SimilarDone(r)
        /\ ~req[r].res.fallback
        /\ Len(Similar(r)) = 2
        /\ ~videos[Similar(r)[1].video_id].exists
        /\ Len(req[r].res.similarVideos) = 1
        /\ req[r].res.similarVideos[1].video._id = Similar(r)[2].video_id
        /\ req[r].res.similarVideos[1].similarityScore = Similar(r)[2].similarity_score
        /\ Similar(r)[1].similarity_score # Similar(r)[2].similarity_score

\* C14: a personalized or similar-videos request whose call to the service was
\* rejected (no connection, timeout, non-2xx status) goes to its fallback and ends
\* with status 200 and fallback: true, also when the fallback list is empty.
C14_FailureAbsorbed ==
    \A r \in Reqs :
        (req[r].op \in {"personalized", "similar"} /\ req[r].extOutcome \in FailureKinds) =>
            /\ req[r].pc \in {"fallback", "similarFallback", "done"}
            /\ req[r].pc = "done" =>
                  /\ req[r].res.status = 200
                  /\ req[r].res.fallback
                  /\ req[r].op = "personalized" => req[r].res.reason = UnavailableReason
                  /\ req[r].op = "similar" => req[r].res.sourceVideo = req[r].videoId

\* the only video of its owner, a non-2xx answer, an empty fallback list
C14_Witness ==
    \E r \in Reqs :
        /\ SimilarDone(r)
        /\ req[r].extOutcome = "status"
        /\ \A v \in Videos \ {req[r].videoId} : Owner(v) # Owner(req[r].videoId)
        /\ req[r].res.similarVideos = <<>>
        /\ req[r].res.fallback

\* no video of the catalog is published
NonePublished == \A v \in Videos : ~(videos[v].exists /\ videos[v].isPublished)

\* C15: when no video of the catalog is published, the sync request ends with status
\* 200 and the summary { synced: 0 }, and nothing is submitted to the service.
C15_NothingToSyncNoCall ==
    [][\A r \in Reqs :
         (req[r].pc = "findPublished" /\ req'[r].pc # "findPublished" /\ NonePublished) =>
            /\ req'[r].pc = "done"
            /\ req'[r].res = DataResponse(NoVideosToSync)
            /\ req'[r].res.data.synced = 0
            /\ req'[r].extCalls = 0
            /\ history'.syncs = history.syncs]_vars

\* a catalog of unpublished videos only, answered with the zero summary, no call
C15_Witness ==
    \E r \in Reqs :
        /\ req[r].op = "sync" /\ req[r].pc = "done"
        /\ NonePublished
        /\ \E v \in Videos : videos[v].exists
        /\ req[r].res.status = 200
        /\ req[r].res.data = NoVideosToSync
        /\ req[r].extCalls = 0
        /\ history.syncs = <<>>

\* C16: when the call that submits the batch is rejected, the sync request ends with
\* ApiError 503 and no data: no summary, no local result, no second call.
C16_SyncFailsWhole ==
    [][\A r \in Reqs :
         (req[r].pc = "syncing" /\ req'[r].pc # "syncing"
            /\ req'[r].extOutcome \in FailureKinds) =>
            /\ req'[r].pc = "done"
            /\ req'[r].res = ErrorResponse(503)
            /\ req'[r].res.data = NoData
            /\ req'[r].extCalls = 1
            /\ history' = history]_vars

\* a batch of two, the call timed out, a 503 after one call
C16_Witness ==
    \E r \in Reqs :
        /\ req[r].op = "sync" /\ req[r].pc = "done"
        /\ Len(req[r].videosForSync) = 2
        /\ req[r].extOutcome = "timeout"
        /\ req[r].res.status = 503
        /\ req[r].extCalls = 1
        /\ Len(history.syncs) = 1

\* batch has exactly one entry { video_id, title, description } for every published
\* video of cat and no other entry
IsFullBatch(batch, cat) ==
    LET published == {v \in Videos : cat[v].exists /\ cat[v].isPublished}
    IN  /\ Len(batch) = Cardinality(published)
        /\ {batch[i].video_id : i \in 1..Len(batch)} = published
        /\ \A i \in 1..Len(batch) :
              batch[i] = [video_id |-> batch[i].video_id,
                          title |-> Title(batch[i].video_id),
                          description |-> Description(batch[i].video_id)]

\* C17: every batch submitted for sync holds exactly one entry per video published
\* in the catalog it was read from, whatever was submitted before, and goes out in
\* the one call of its request; two submissions in a row from the same catalog are
\* the same batch.
C17_FullBatchEachTime ==
    /\ \A i \in 1..Len(history.syncs) :
          IsFullBatch(history.syncs[i].batch, history.syncs[i].catalog)
    /\ (Len(history.syncs) = 2 /\ history.syncs[1].catalog = history.syncs[2].catalog)
          => history.syncs[1].batch = history.syncs[2].batch
    /\ \A r \in Reqs :
          req[r].op = "sync" =>
              /\ req[r].extCalls <= 1
              /\ req[r].pc = "syncing" =>
                    /\ req[r].extCalls = 1
                    /\ req[r].videosForSync = history.syncs[Len(history.syncs)].batch

\* two syncs of a catalog with two published and one unpublished video
C17_Witness ==
    /\ Len(history.syncs) = 2
    /\ history.syncs[1].catalog = history.syncs[2].catalog
    /\ history.syncs[1].batch = history.syncs[2].batch
    /\ Len(history.syncs[2].batch) = 2
    /\ \E v \in Videos :
          /\ history.syncs[2].catalog[v].exists
          /\ ~history.syncs[2].catalog[v].isPublished

\* C18: whatever the transport does, an operation of the client gives back a value
\* and lets no exception out: the body of the answer when the call resolved, null
\* when it was rejected; the health check gives { status: "unhealthy" } instead of
\* null.
C18_ClientNeverThrows ==
    client.op # "none" =>
        /\ client.returned # Thrown
        /\ client.kind = "ok" => client.returned = client.data
        /\ client.kind \in FailureKinds =>
              IF client.op = "health"
              THEN client.returned.status = "unhealthy"
              ELSE client.returned.body = "null"

\* a health check that timed out gave back the unhealthy status
C18_Witness ==
    /\ client.op = "health"
    /\ client.kind = "timeout"
    /\ client.returned.status = "unhealthy"
    /\ client.returned.error = "timeout"

\* C19: whatever the last health answer was and however the call of the request
\* before ended, a personalized request of a user with history and a similar-videos
\* request for an existing video call the service once and answer with fallback:
\* true exactly when their own call was rejected or brought no list.
C19_OwnCallDecides ==
    \A r \in Reqs :
        /\ (PersonalizedDone(r) /\ ~EmptyHistory(r)) =>
              /\ req[r].extCalls = 1
              /\ req[r].res.fallback <=> CallUnusable(r)
        /\ SimilarDone(r) =>
              /\ req[r].extCalls = 1
              /\ req[r].res.fallback <=> SimilarUnusable(r)

\* after an unhealthy health answer and a rejected call, a request whose own call
\* resolved answers from the list of the service
C19_Witness ==
    \E r \in Reqs :
        /\ history.health = "unhealthy"
        /\ history.last = "failed"
        /\ SimilarDone(r)
        /\ req[r].extCalls = 1
        /\ req[r].extOutcome = "ok"
        /\ ~req[r].res.fallback
        /\ Len(req[r].res.similarVideos) >= 1

\* the requests in slots r and s have the same inputs and got the same answer to
\* their calls
SameRequest(r, s) ==
    /\ req[r].op = req[s].op
    /\ req[r].userId = req[s].userId
    /\ req[r].videoId = req[s].videoId
    /\ req[r].limit = req[s].limit
    /\ req[r].extOutcome = req[s].extOutcome
    /\ req[r].recommendations = req[s].recommendations
    /\ req[r].similarResult = req[s].similarResult

\* C20: with two requests in flight, every step changes the locals and the answer
\* of one request only and no store; a request can always take its next step,
\* whatever the other one is doing; each request that reaches its call makes its own
\* call, so two requests with the same inputs can get different answers to their
\* calls; and two requests with the same inputs and the same answer to their calls,
\* read from the same catalog, give the same response.
C20_RequestsIndependent ==
    [][/\ \A r \in Slots :
             req'[r] # req[r] =>
                /\ \A s \in Slots \ {r} : req'[s] = req[s]
                /\ UNCHANGED <<videos, watchHistory, likes, history, client>>
       /\ \A r \in Slots : ENABLED (RequestStart(r) \/ RequestStep(r))
       /\ \A r \in Slots :
             req'[r].pc \in {"calling", "callingSimilar"} => req'[r].extCalls = 1
       /\ \A r, s \in Slots :
             (writes' = 0 /\ req'[r].pc = "done" /\ req'[s].pc = "done"
                /\ SameRequest(r, s)') => req'[r].res = req'[s].res]_vars

\* two requests of the same user and limit, both after their own call: one was
\* rejected and answered by the fallback, the other answered from the list
C20_Witness ==
    \E r, s \in Slots :
        /\ r # s
        /\ req[r].op = "personalized" /\ req[s].op = "personalized"
        /\ req[r].userId = req[s].userId
        /\ req[r].limit = req[s].limit
        /\ req[r].pc = "done" /\ req[s].pc = "done"
        /\ req[r].extCalls = 1 /\ req[s].extCalls = 1
        /\ req[r].extOutcome = "error" /\ req[r].res.fallback
        /\ req[s].extOutcome = "ok" /\ ~req[s].res.fallback
        /\ Len(req[s].res.recommendations) = 1

\* C21: a step of a recommendation handler (personalized, similar, sync, health)
\* leaves the stored videos, with their view counts and published flags, the watch
\* histories and the likes as they were; only the video controller writes them.
C21_HandlersReadOnly ==
    [][req' # req => UNCHANGED <<videos, watchHistory, likes, writes>>]_vars

\* a sync answered with a summary after a catalog write by the video controller:
\* the catalog is still the one the batch was read from
C21_Witness ==
    \E r \in Reqs :
        /\ req[r].op = "sync" /\ req[r].pc = "done"
        /\ req[r].res.status = 200
        /\ writes = 1
        /\ Len(history.syncs) >= 1
        /\ history.syncs[Len(history.syncs)].catalog = videos
        /\ history.health = "healthy"

HealthDone(r) == req[r].op = "health" /\ req[r].pc = "done"

\* C22 as stated: every health request is answered with 200 or 503, and with 200
\* exactly when the service answered with the status "healthy"
C22_HealthClassified ==
    \A r \in Reqs :
        HealthDone(r) =>
            /\ req[r].res.status \in {200, 503}
            /\ req[r].res.status = 200 <=>
                  (req[r].extOutcome = "ok" /\ req[r].res.data.status = "healthy")

\* C23: no personalized answer, on the fallback paths or from the ranked list, holds
\* a video of the exclusion list the request built from the watched and the liked
\* ids.
C23_ExcludedNeverReturned ==
    \A r \in Reqs :
        PersonalizedDone(r) =>
            \A i \in 1..Len(RecIds(r)) :
                RecIds(r)[i] \notin Range(req[r].watchedVideoIds)
                                    \cup Range(req[r].likedVideoIds)

\* the ids of a list of entries { video, ... }, in order
EntryIds(out) == [i \in 1..Len(out) |-> out[i].video._id]

\* C24: whenever a video was deleted before the re-hydration read of a personalized
\* or similar-videos request, also after the metadata snapshot was taken and the
\* service ranked it, the answer is a normal one (200, fallback: false) without
\* that video, with the ranked entries that are left in their order.
C24_DeletedBeforeRejoinDropped ==
    [][\A r \in Reqs :
         /\ (req[r].pc = "rehydrate" /\ req'[r].pc = "done") =>
               /\ req'[r].res.status = 200 /\ ~req'[r].res.fallback
               /\ EntryIds(req'[r].res.recommendations)
                     = SelectSeq(VideoIds(Ranked(r)), LAMBDA v : videos[v].exists)
         /\ (req[r].pc = "similarRehydrate" /\ req'[r].pc = "done") =>
               /\ req'[r].res.status = 200 /\ ~req'[r].res.fallback
               /\ EntryIds(req'[r].res.similarVideos)
                     = SelectSeq(VideoIds(Similar(r)), LAMBDA v : videos[v].exists)]_vars

\* a video of the snapshot sent to the service, ranked first by it, deleted before
\* the re-join: the answer holds the second ranked video only
C24_Witness ==
    \E r \in Reqs :
        /\ Success(r)
        /\ Len(Ranked(r)) = 2
        /\ Ranked(r)[1].video_id \in DOMAIN req[r].videoMetadata
        /\ ~videos[Ranked(r)[1].video_id].exists
        /\ req[r].res.status = 200
        /\ EntryIds(Recs(r)) = <<Ranked(r)[2].video_id>>

\* the three ways a personalized request is answered
Tier1(r) ==
    /\ EmptyHistory(r) /\ req[r].extCalls = 0
    /\ req[r].res.fallback /\ req[r].res.reason = NoHistoryReason

Tier2(r) ==
    /\ ~EmptyHistory(r) /\ req[r].extCalls = 1 /\ CallUnusable(r)
    /\ req[r].res.fallback /\ req[r].res.reason = UnavailableReason

RankedAnswer(r) ==
    /\ ~EmptyHistory(r) /\ req[r].extCalls = 1 /\ ~CallUnusable(r)
    /\ ~req[r].res.fallback /\ req[r].res.reason = "none"

\* C25: when every query of the store and every call of the service settles, a
\* personalized request is answered, with status 200 and in exactly one of three
\* ways: no history and no call; a call that failed or brought no list; a ranked
\* list re-joined with the catalog. fallback is false in the third way only.
C25_PersonalizedCompletes ==
    /\ [](\A r \in Reqs :
            PersonalizedDone(r) =>
                /\ req[r].res.status = 200
                /\ Tier1(r) \/ Tier2(r) \/ RankedAnswer(r)
                /\ ~req[r].res.fallback <=> RankedAnswer(r))
    /\ \A r \in Reqs :
          (req[r].op = "personalized" /\ req[r].pc # "done") ~> PersonalizedDone(r)

\* a request answered after a call that timed out, by the second way
C25_Witness ==
    \E r \in Reqs :
        /\ PersonalizedDone(r)
        /\ req[r].extOutcome = "timeout"
        /\ Tier2(r)
        /\ ~Tier1(r) /\ ~RankedAnswer(r)
        /\ Len(Recs(r)) >= 1

\* the middleware chain of request r is over: verifyJWT returned without passing
\* control on, or the handler has answered
ChainOver(r) == auth[r].pc \in {"returned", "responded"}

\* the handler of request r has been entered
HandlerRan(r) == auth[r].pc \in {"handler", "responded"}

\* C26: a request to a protected route whose middleware chain is over has exactly
\* one response, the handler's when verifyJWT found a user and an authentication
\* error otherwise, and no request ever has more than one; the handler runs
\* only for a request whose token gave a user; the token of a request to the
\* health route is never checked.
C26_OneResponseEach ==
    \A r \in Reqs :
        /\ auth[r].sent <= 1
        /\ ChainOver(r) => auth[r].sent = 1
        /\ auth[r].route \in ProtectedRoutes /\ HandlerRan(r) => auth[r].user \in Users
        /\ auth[r].pc = "returned" => req[r].pc = "idle"
        /\ auth[r].route = "health" => ~auth[r].checked

====
